---- MODULE Spec2Model ----
(***************************************************************************)
(* Model of the log analysis core of jastm (src/jastm.py): the CSV loader  *)
(* and statistics of DataAnalyzer.load_data, the single-run report         *)
(* (show_summary) and the single-run branch of main.                       *)
(*                                                                         *)
(* Numbers.  Python floats are modelled as exact rationals [num, den] with *)
(* den > 0 (integers for the raw column values); comparisons are made by   *)
(* cross-multiplication.  Timestamps are whole seconds on an integer axis. *)
(*                                                                         *)
(* Text.  A CSV field is a token [k, v]: k says what the text looks like   *)
(* ("ts" ISO timestamp without UTC offset, "tsz" ISO timestamp with a UTC  *)
(* offset, "num" decimal number, "bad" anything else) and v is its value.  *)
(* datetime.fromisoformat and float are modelled by what they accept.      *)
(***************************************************************************)
EXTENDS Integers, Sequences, FiniteSets, TLC

(* ---------------------------- bounds ----------------------------------- *)
\* largest number of data rows (lines after the header) of a log
MaxRows == 2
\* number of analyzers compared side by side on the same log
NumAnalyzers == 2

(* ---------------------------- rationals -------------------------------- *)
Rat(n, d) == [num |-> n, den |-> d]
FromInt(n) == Rat(n, 1)
RAdd(a, b) == Rat(a.num * b.den + b.num * a.den, a.den * b.den)
RSub(a, b) == Rat(a.num * b.den - b.num * a.den, a.den * b.den)
RMul(a, b) == Rat(a.num * b.num, a.den * b.den)
RLess(a, b) == a.num * b.den < b.num * a.den
REq(a, b) == a.num * b.den = b.num * a.den

RECURSIVE sum(_)
\* Python's built-in sum over a list
sum(s) == IF s = <<>> THEN 0 ELSE s[1] + sum(Tail(s))

(* ---------------------------- CSV text --------------------------------- *)
Field(k, v) == [k |-> k, v |-> v]
TimeVals == {0, 1}
CpuVals == {-2, -1, 1, 3}
MemVals == {1, 3}

\* the header line written by the collector
HeaderRow == <<Field("bad", 0), Field("bad", 1), Field("bad", 2)>>
\* a blank line: csv.reader yields an empty list for it
BlankRow == <<>>

WellFormedRows ==
    { <<Field("ts", t), Field("num", c), Field("num", m)>> :
        t \in TimeVals, c \in CpuVals, m \in MemVals }
\* rows the loader has to cope with besides the well-formed ones
OtherRows ==
    { BlankRow,
      <<Field("ts", 1), Field("num", 2)>>,
      <<Field("bad", 0), Field("num", 2), Field("num", 1)>>,
      <<Field("ts", 0), Field("bad", 0), Field("num", 1)>>,
      <<Field("ts", 1), Field("num", 2), Field("bad", 0)>>,
      <<Field("ts", 1), Field("num", 2), Field("num", 3), Field("bad", 0)>>,
      <<Field("tsz", 1), Field("num", 2), Field("num", 1)>> }
Rows == WellFormedRows \cup OtherRows

RECURSIVE SeqsUpTo(_, _)
SeqsUpTo(S, n) ==
    IF n = 0 THEN { <<>> }
    ELSE LET shorter == SeqsUpTo(S, n - 1)
         IN  shorter \cup { Append(s, x) : s \in { q \in shorter : Len(q) = n - 1 }, x \in S }

\* A path either does not exist or holds the lines of a text file.
MissingFile == [exists |-> FALSE, lines |-> <<>>]
TextFile(lines) == [exists |-> TRUE, lines |-> lines]
\* (a log whose first line is blank is given at most one more line: the
\* loader returns before it reads any)
Files ==
    { MissingFile, TextFile(<<>>) }
    \cup { TextFile(<<HeaderRow>> \o data) : data \in SeqsUpTo(Rows, MaxRows) }
    \cup { TextFile(<<BlankRow>> \o data) : data \in SeqsUpTo(Rows, 1) }

\* datetime.fromisoformat: ValueError unless the text is an ISO timestamp
fromisoformat_ok(f) == f.k \in {"ts", "tsz"}
\* float(): ValueError unless the text is a number
float_ok(f) == f.k = "num"
\* datetime - datetime: TypeError when exactly one side carries a UTC offset
subtract_ok(a, b) == a.k = b.k

(* ---------------------------- DataAnalyzer ----------------------------- *)
\* datetime.now() at construction time
Now == Field("ts", 9)

DataAnalyzer(filepath, cpu_peak_criteria, ram_peak_criteria) ==
    [ filepath |-> filepath,
      cpu_peak_criteria |-> cpu_peak_criteria,
      ram_peak_criteria |-> ram_peak_criteria,
      timestamps |-> <<>>,
      cpu_data |-> <<>>,
      memory_data |-> <<>>,
      avg_cpu |-> FromInt(0),
      avg_mem |-> FromInt(0),
      duration_seconds |-> 0,
      cpu_peaks |-> <<>>,
      memory_peaks |-> <<>>,
      start_datetime |-> Now ]

\* (variant that takes the reference time from the first row whose timestamp
\* parses, before the two float columns are looked at)
ReadRow_early_start(acc, row) ==
    IF acc.raised THEN acc
    ELSE IF Len(row) < 3 THEN acc
    ELSE IF ~ fromisoformat_ok(row[1]) THEN acc
    ELSE LET ts == row[1]
             first == acc.start_time_val = <<>>
             start == IF first THEN ts ELSE acc.start_time_val[1]
             s1 == IF first THEN [acc.self EXCEPT !.start_datetime = ts] ELSE acc.self
         IN  IF ~ (float_ok(row[2]) /\ float_ok(row[3]))
             THEN [acc EXCEPT !.self = s1, !.start_time_val = <<start>>]
             ELSE IF ~ subtract_ok(ts, start)
             THEN [acc EXCEPT !.raised = TRUE]
             ELSE [ self |-> [s1 EXCEPT !.timestamps = Append(@, ts.v - start.v),
                                        !.cpu_data = Append(@, row[2].v),
                                        !.memory_data = Append(@, row[3].v)],
                    start_time_val |-> <<start>>,
                    raised |-> FALSE ]

\* One pass of the "for row in reader" loop body over a row.
\* acc = [self, start_time_val (sequence of 0 or 1 timestamps), raised]
ReadRow(acc, row) ==
    IF acc.raised THEN acc
    ELSE IF Len(row) < 3 THEN acc
    ELSE IF ~ (fromisoformat_ok(row[1]) /\ float_ok(row[2]) /\ float_ok(row[3])) THEN acc
    ELSE LET ts == row[1]
             first == acc.start_time_val = <<>>
             start == IF first THEN ts ELSE acc.start_time_val[1]
             s1 == IF first THEN [acc.self EXCEPT !.start_datetime = ts] ELSE acc.self
         IN  IF ~ subtract_ok(ts, start)
             THEN [acc EXCEPT !.raised = TRUE]
             ELSE [ self |-> [s1 EXCEPT !.timestamps = Append(@, ts.v - start.v),
                                        !.cpu_data = Append(@, row[2].v),
                                        !.memory_data = Append(@, row[3].v)],
                    start_time_val |-> <<start>>,
                    raised |-> FALSE ]

RECURSIVE ReadRows(_, _)
ReadRows(acc, data) ==
    IF data = <<>> THEN acc ELSE ReadRows(ReadRow(acc, data[1]), Tail(data))

One == FromInt(1)

\* cpu_threshold = self.avg_cpu * (1.0 + self.cpu_peak_criteria)
cpu_threshold_minus(self) == RMul(self.avg_cpu, RSub(One, self.cpu_peak_criteria))
cpu_threshold(self) == RMul(self.avg_cpu, RAdd(One, self.cpu_peak_criteria))
\* mem_threshold = self.avg_mem * (1.0 - self.ram_peak_criteria)
mem_threshold(self) == RMul(self.avg_mem, RSub(One, self.ram_peak_criteria))

\* if c > cpu_threshold
is_cpu_peak_ge(c, threshold) == ~ RLess(FromInt(c), threshold)
is_cpu_peak(c, threshold) == RLess(threshold, FromInt(c))
\* if m < mem_threshold
is_mem_peak_le(m, threshold) == ~ RLess(threshold, FromInt(m))
is_mem_peak(m, threshold) == RLess(FromInt(m), threshold)

\* the tuple appended to cpu_peaks / memory_peaks
PeakRecord_cpu_only(t, c, m) == <<t, c, c>>
PeakRecord(t, c, m) == <<t, c, m>>

RECURSIVE PeakLoop(_, _, _, _)
\* "for i in range(len(self.timestamps))" from index i on, appending to found
PeakLoop(self, cpu_thr, mem_thr, i) ==
    IF i > Len(self.timestamps) THEN [cpu |-> <<>>, mem |-> <<>>]
    ELSE LET t == self.timestamps[i]
             c == self.cpu_data[i]
             m == self.memory_data[i]
             rest == PeakLoop(self, cpu_thr, mem_thr, i + 1)
         IN  [ cpu |-> (IF is_cpu_peak(c, cpu_thr) THEN <<PeakRecord(t, c, m)>> ELSE <<>>)
                       \o rest.cpu,
               mem |-> (IF is_mem_peak(m, mem_thr) THEN <<PeakRecord(t, c, m)>> ELSE <<>>)
                       \o rest.mem ]

\* sum(data) / len(data), 0.0 for an empty list
mean_of_tail(data) == IF data # <<>> THEN Rat(sum(Tail(data)), Len(data)) ELSE FromInt(0)
mean(data) == IF data # <<>> THEN Rat(sum(data), Len(data)) ELSE FromInt(0)

\* The statistics part of load_data, run once the rows are read.
PreCalculate(self) ==
    LET n == Len(self.timestamps)
        s1 == [self EXCEPT
                 !.duration_seconds = self.timestamps[n] - self.timestamps[1],
                 !.avg_cpu = mean(self.cpu_data),
                 !.avg_mem = mean(self.memory_data)]
        found == PeakLoop(s1, cpu_threshold(s1), mem_threshold(s1), 1)
    IN  [s1 EXCEPT !.cpu_peaks = found.cpu, !.memory_peaks = found.mem]

\* DataAnalyzer.load_data: the analyzer afterwards, the value returned and
\* the diagnostic printed on stderr (<<>> when nothing is printed).
load_data(self, file) ==
    IF ~ file.exists
    THEN [self |-> self, ret |-> FALSE, err |-> << <<"Error: File not found:", self.filepath>> >>]
    ELSE IF file.lines = <<>> \/ file.lines[1] = <<>>
    THEN [self |-> self, ret |-> FALSE, err |-> << <<"Error: Empty file">> >>]
    ELSE LET acc == ReadRows([self |-> self, start_time_val |-> <<>>, raised |-> FALSE],
                             Tail(file.lines))
         IN  IF acc.raised
             THEN [self |-> acc.self, ret |-> FALSE, err |-> << <<"Error reading file:", "TypeError">> >>]
             ELSE IF acc.self.timestamps = <<>>
             THEN [self |-> acc.self, ret |-> FALSE, err |-> << <<"Error: No valid data found in file.">> >>]
             ELSE [self |-> PreCalculate(acc.self), ret |-> TRUE, err |-> <<>>]

(* ---------------------------- show_summary ---------------------------- *)
RECURSIVE min(_)
min(s) == IF Len(s) = 1 THEN s[1]
          ELSE LET r == min(Tail(s)) IN IF s[1] <= r THEN s[1] ELSE r
RECURSIVE max(_)
max(s) == IF Len(s) = 1 THEN s[1]
          ELSE LET r == max(Tail(s)) IN IF s[1] >= r THEN s[1] ELSE r

\* one table line per peak: the time of day, the CPU value and the memory value
PeakLines(self, peaks) ==
    [ j \in 1..Len(peaks) |->
        <<"|", self.start_datetime.v + peaks[j][1], peaks[j][2], peaks[j][3]>> ]

PeakSection(self, title, thresh, none, peaks) ==
    << <<title, thresh>> >>
    \o (IF peaks = <<>> THEN << <<none>> >>
        ELSE << <<"| Timestamp | CPU (%) | Memory (MB) |">>, <<"| :--- | :--- | :--- |">> >>
             \o PeakLines(self, peaks))

\* f"{x:.0f}": the nearest integer, the even one of two equally near
Format0f(x) ==
    LET q == x.num \div x.den
        r == x.num - q * x.den
    IN  IF 2 * r < x.den THEN q
        ELSE IF 2 * r > x.den THEN q + 1
        ELSE IF q % 2 = 0 THEN q ELSE q + 1

\* DataAnalyzer.show_summary: the lines printed on stdout
show_summary(self) ==
    LET n == Len(self.timestamps)
        min_cpu == IF self.cpu_data # <<>> THEN min(self.cpu_data) ELSE 0
        max_cpu == IF self.cpu_data # <<>> THEN max(self.cpu_data) ELSE 0
        min_mem == IF self.memory_data # <<>> THEN min(self.memory_data) ELSE 0
        max_mem == IF self.memory_data # <<>> THEN max(self.memory_data) ELSE 0
    IN  << <<"=== Summary Report ===">>, <<"Duration:", self.duration_seconds>> >>
        \o (IF self.timestamps # <<>>
            THEN << <<"Time Period:", self.start_datetime.v + self.timestamps[1],
                      self.start_datetime.v + self.timestamps[n]>> >>
            ELSE <<>>)
        \o << <<"CPU Stats:", self.avg_cpu, min_cpu, max_cpu>>,
              <<"Memory Stats:", self.avg_mem, min_mem, max_mem>>,
              <<"### Peaks Report", Format0f(RMul(self.cpu_peak_criteria, FromInt(100))),
                Format0f(RMul(self.ram_peak_criteria, FromInt(100)))>> >>
        \o PeakSection(self, "#### CPU Peaks (>", cpu_threshold(self),
                       "No cpu peaks detected.", self.cpu_peaks)
        \o PeakSection(self, "#### Memory Peaks (<", mem_threshold(self),
                       "No memory peaks detected.", self.memory_peaks)
        \o << <<"======================">> >>

(* ---------------------------- state ------------------------------------ *)
VARIABLES
    fs,           \* what the path given to --parse-file holds
    args,         \* the effective options of the invocation, <<>> before they are resolved
    pc,           \* position of main
    analyzer,     \* the DataAnalyzer of main, <<>> before it is constructed
    stdout,       \* lines printed on standard output
    stderr,       \* lines printed on standard error
    exit_status,  \* <<>> while running, <<code>> once the process has ended
    window,       \* TRUE once the metrics window has been launched
    bench,        \* analyzers built side by side on the same log: [obj, ret]
    argv,         \* the command line as typed, <<>> where it is not tracked
    config,       \* the parsed --config-file, <<>> without one
    disk,         \* what each path given to --aggregate-summaries holds
    rows,         \* the rows list of aggregate_summaries
    idx,          \* how many paths the loop of aggregate_summaries has consumed
    probe,        \* a helper function under test: its arguments and its result
    collector,    \* the DataCollector of main, <<>> before it is constructed
    env,          \* what surrounds the collector: the monitored process, the clock, the log file
    lock          \* who holds DataCollector.lock: "free", "monitor" or "gui"

\* the state outside the single-run analysis
col == <<collector, env, lock>>
aux == <<argv, config, disk, rows, idx, probe, col>>
vars == <<fs, args, pc, analyzer, stdout, stderr, exit_status, window, bench, aux>>

LogPath == "log.csv"

DEFAULT_SAMPLE_RATE == 1
DEFAULT_CPU_PEAK_PERCENTAGE == 90
DEFAULT_RAM_PEAK_PERCENTAGE == 50

\* option values tried on the command line; <<>> stands for "option not given"
CpuPeakOpts == { <<>>, <<0>>, <<50>> }
RamPeakOpts == { <<>>, <<0>> }
SampleRateOpts == { <<>>, <<FromInt(0)>>, <<FromInt(1)>> }

\* float("nan"): every comparison with it is false
nan == [num |-> 0, den |-> 0]
\* x <= 0 and x > 0 for a float
float_le_0(x) == x.den # 0 /\ x.num <= 0
float_gt_0(x) == x.den # 0 /\ x.num > 0

\* a command line as parse_arguments returns it; <<>> stands for None
CommandLine(parse_file, aggregate, process_id, summary, metrices_window, cpu, ram, sample_rate, machine_id) ==
    [ parse_file |-> parse_file, aggregate_summaries |-> aggregate, process_id |-> process_id,
      summary |-> summary, metrices_window |-> metrices_window,
      cpu_peak_percentage |-> cpu, ram_peak_percentage |-> ram,
      sample_rate |-> sample_rate, machine_id |-> machine_id ]

\* the command lines of single-run analysis mode
CommandLines ==
    { CommandLine(<<LogPath>>, <<>>, <<>>, s, w, c, r, sr, <<>>) :
        s \in BOOLEAN, w \in BOOLEAN, c \in CpuPeakOpts, r \in RamPeakOpts,
        sr \in SampleRateOpts }

\* A config file is <<>> (no --config-file) or <<dict>>, dict a function from
\* section name to a function from key to an entry.  An entry is <<>> (key
\* absent), <<"plain", v>> (key: v) or <<"mapping", opt>> (key: {value: ...},
\* opt = <<>> when the mapping has no "value").
NoConfig == <<>>
ConfigSections == {"analysis", "collection"}
ConfigKeys == {"cpu_peak_percentage", "ram_peak_percentage", "sample_rate", "machine_id"}

\* _get_config_option: <<>> for None
_get_config_option(cfg, section, key) ==
    IF cfg = <<>> THEN <<>>
    ELSE LET raw == cfg[1][section][key]
         IN  IF raw = <<>> THEN <<>>
             ELSE IF raw[1] = "mapping" THEN raw[2]
             ELSE <<raw[2]>>

\* _derive_default_machine_id: four digits taken from the NIC address
DerivedMachineId == <<"0", "0", "4", "2">>

\* (variant in which a config value wins over the command line)
_resolve_config_first(a, cfg) ==
    LET is_analysis_mode == a.parse_file # <<>> \/ a.aggregate_summaries # <<>>
        Pick(cli, cfg_val, default) ==
            IF cfg_val # <<>> THEN cfg_val[1] ELSE IF cli # <<>> THEN cli[1] ELSE default
    IN  [ a EXCEPT
            !.cpu_peak_percentage =
                Pick(a.cpu_peak_percentage,
                     _get_config_option(cfg, "analysis", "cpu_peak_percentage"),
                     DEFAULT_CPU_PEAK_PERCENTAGE),
            !.ram_peak_percentage =
                Pick(a.ram_peak_percentage,
                     _get_config_option(cfg, "analysis", "ram_peak_percentage"),
                     DEFAULT_RAM_PEAK_PERCENTAGE),
            !.sample_rate =
                IF is_analysis_mode
                THEN Pick(a.sample_rate, <<>>, FromInt(DEFAULT_SAMPLE_RATE))
                ELSE Pick(a.sample_rate,
                          _get_config_option(cfg, "collection", "sample_rate"),
                          FromInt(DEFAULT_SAMPLE_RATE)),
            !.machine_id =
                Pick(a.machine_id,
                     _get_config_option(cfg, "collection", "machine_id"),
                     DerivedMachineId) ]

\* _resolve_effective_options: the command line wins, then the config file,
\* then the built-in default (the process/program options of collection mode
\* are left as given)
_resolve_effective_options(a, cfg) ==
    LET is_analysis_mode == a.parse_file # <<>> \/ a.aggregate_summaries # <<>>
        Pick(cli, cfg_val, default) ==
            IF cli # <<>> THEN cli[1] ELSE IF cfg_val # <<>> THEN cfg_val[1] ELSE default
    IN  [ a EXCEPT
            !.cpu_peak_percentage =
                Pick(a.cpu_peak_percentage,
                     _get_config_option(cfg, "analysis", "cpu_peak_percentage"),
                     DEFAULT_CPU_PEAK_PERCENTAGE),
            !.ram_peak_percentage =
                Pick(a.ram_peak_percentage,
                     _get_config_option(cfg, "analysis", "ram_peak_percentage"),
                     DEFAULT_RAM_PEAK_PERCENTAGE),
            !.sample_rate =
                IF is_analysis_mode
                THEN Pick(a.sample_rate, <<>>, FromInt(DEFAULT_SAMPLE_RATE))
                ELSE Pick(a.sample_rate,
                          _get_config_option(cfg, "collection", "sample_rate"),
                          FromInt(DEFAULT_SAMPLE_RATE)),
            !.machine_id =
                Pick(a.machine_id,
                     _get_config_option(cfg, "collection", "machine_id"),
                     DerivedMachineId) ]

\* the ratios handed to DataAnalyzer: percentage / 100.0
PeakRatio(percentage) == Rat(percentage, 100)

\* no collector, nothing to monitor
NoEnv == <<>>
ColIdle ==
    /\ collector = <<>>
    /\ env = NoEnv
    /\ lock = "free"

\* nothing outside the single-run analysis is in use
NoDisk == <<>>
NoProbe == <<>>
AuxIdle ==
    /\ argv = <<>>
    /\ config = NoConfig
    /\ disk = NoDisk
    /\ rows = <<>>
    /\ idx = 0
    /\ probe = NoProbe
    /\ ColIdle

Init ==
    /\ fs \in Files
    /\ args = <<>>
    /\ pc = "start"
    /\ analyzer = <<>>
    /\ stdout = <<>>
    /\ stderr = <<>>
    /\ exit_status = <<>>
    /\ window = FALSE
    /\ bench = [k \in 1..NumAnalyzers |-> [obj |-> <<>>, ret |-> "none"]]
    /\ AuxIdle

(* ---------------------------- main, --parse-file ----------------------- *)
\* where main goes once the data is loaded
AfterLoad(a) ==
    IF a.summary THEN "summary"
    ELSE IF a.metrices_window THEN "window"
    ELSE "no_action"

\* main: parse the command line, resolve the options, validate the sample
\* rate and pick the mode (collection mode is not entered here)
ResolveOptions(a, cfg) ==
    /\ pc = "start"
    /\ LET merged == _resolve_effective_options(a, cfg)
       IN  /\ args' = <<merged>>
           /\ IF float_le_0(merged.sample_rate)
              THEN /\ stderr' = Append(stderr, <<"Error: --sample-rate must be a positive number">>)
                   /\ exit_status' = <<2>>
                   /\ pc' = "exited"
              ELSE /\ pc' = IF merged.parse_file # <<>> THEN "parse_file"
                          ELSE IF merged.aggregate_summaries # <<>> THEN "aggregate"
                          ELSE "collect"
                   /\ UNCHANGED <<stderr, exit_status>>
    /\ UNCHANGED <<fs, analyzer, stdout, window, bench, aux>>

\* main: build the analyzer from the effective ratios
NewAnalyzer ==
    /\ pc = "parse_file"
    /\ analyzer' = << DataAnalyzer(args[1].parse_file[1],
                                   PeakRatio(args[1].cpu_peak_percentage),
                                   PeakRatio(args[1].ram_peak_percentage)) >>
    /\ pc' = "load"
    /\ UNCHANGED <<fs, args, stdout, stderr, exit_status, window, bench, aux>>

\* (variant of LoadData that goes on to the report whatever load_data returns)
LoadData_no_exit ==
    /\ pc = "load"
    /\ LET r == load_data(analyzer[1], fs)
       IN  /\ analyzer' = <<r.self>>
           /\ stderr' = stderr \o r.err
           /\ pc' = AfterLoad(args[1])
           /\ UNCHANGED exit_status
    /\ UNCHANGED <<fs, args, stdout, window, bench, aux>>

\* main: analyzer.load_data(), sys.exit(1) when it reports failure
LoadData ==
    /\ pc = "load"
    /\ LET r == load_data(analyzer[1], fs)
       IN  /\ analyzer' = <<r.self>>
           /\ stderr' = stderr \o r.err
           /\ IF r.ret
              THEN /\ pc' = AfterLoad(args[1])
                   /\ UNCHANGED exit_status
              ELSE /\ pc' = "exited"
                   /\ exit_status' = <<1>>
    /\ UNCHANGED <<fs, args, stdout, window, bench, aux>>

\* main: analyzer.show_summary() when --summary is given
ShowSummary ==
    /\ pc = "summary"
    /\ stdout' = stdout \o show_summary(analyzer[1])
    /\ pc' = IF args[1].metrices_window THEN "window" ELSE "return"
    /\ UNCHANGED <<fs, args, analyzer, stderr, exit_status, window, bench, aux>>

\* main: analyzer.show_metrics_window() when --metrices-window is given;
\* the call returns when the user closes the window
ShowMetricsWindow ==
    /\ pc = "window"
    /\ window' = TRUE
    /\ pc' = "return"
    /\ UNCHANGED <<fs, args, analyzer, stdout, stderr, exit_status, bench, aux>>

\* main: neither --summary nor --metrices-window
NoAction ==
    /\ pc = "no_action"
    /\ stdout' = Append(stdout, <<"Analysis mode selected but no action specified.">>)
    /\ pc' = "return"
    /\ UNCHANGED <<fs, args, analyzer, stderr, exit_status, window, bench, aux>>

\* main returns: the interpreter ends with status 0
Return ==
    /\ pc = "return"
    /\ exit_status' = <<0>>
    /\ pc' = "exited"
    /\ UNCHANGED <<fs, args, analyzer, stdout, stderr, window, bench, aux>>

Next ==
    \/ \E a \in CommandLines : ResolveOptions(a, NoConfig)
    \/ NewAnalyzer
    \/ LoadData
    \/ ShowSummary
    \/ ShowMetricsWindow
    \/ NoAction
    \/ Return

Spec == Init /\ [][Next]_vars

(* ------------- the same log analysed under several ratio settings ------ *)
CpuPeakPercentages == {0, 50, 90}
RamPeakPercentages == {50}

\* logs for the comparison: a header, then rows that differ in time and CPU
\* value (the memory column is held at 1), with a short row among them
BenchRows ==
    { r \in WellFormedRows : r[3].v = 1 } \cup { <<Field("ts", 1), Field("num", 2)>> }
BenchFiles == { TextFile(<<HeaderRow>> \o data) : data \in SeqsUpTo(BenchRows, MaxRows) }

InitBench ==
    /\ fs \in BenchFiles
    /\ args = <<>>
    /\ pc = "start"
    /\ analyzer = <<>>
    /\ stdout = <<>>
    /\ stderr = <<>>
    /\ exit_status = <<>>
    /\ window = FALSE
    /\ bench = [k \in 1..NumAnalyzers |-> [obj |-> <<>>, ret |-> "none"]]
    /\ AuxIdle

\* DataAnalyzer(LogPath, cpu_peak_criteria=c/100, ram_peak_criteria=r/100)
Construct(k, c, r) ==
    /\ bench[k].obj = <<>>
    /\ bench' = [bench EXCEPT ![k].obj = <<DataAnalyzer(LogPath, PeakRatio(c), PeakRatio(r))>>]
    /\ UNCHANGED <<fs, args, pc, analyzer, stdout, stderr, exit_status, window, aux>>

\* analyzer.load_data() on analyzer k
Load(k) ==
    /\ bench[k].obj # <<>>
    /\ bench[k].ret = "none"
    /\ LET r == load_data(bench[k].obj[1], fs)
       IN  bench' = [bench EXCEPT ![k] = [obj |-> <<r.self>>,
                                          ret |-> IF r.ret THEN "True" ELSE "False"]]
    /\ UNCHANGED <<fs, args, pc, analyzer, stdout, stderr, exit_status, window, aux>>

NextBench ==
    \E k \in 1..NumAnalyzers :
        \/ \E c \in CpuPeakPercentages, r \in RamPeakPercentages : Construct(k, c, r)
        \/ Load(k)

SpecBench == InitBench /\ [][NextBench]_vars

(* ---------------------------- aggregate helpers ------------------------ *)
\* File names are sequences of one-character strings.
Digits == {"0", "1", "2", "3", "4", "5", "6", "7", "8", "9"}
Letters == {"a", "c", "g", "l", "m", "n", "o", "r", "s", "u", "v"}
\* \w of the re module: letters, digits and the underscore
IsWordChar(c) == c \in Digits \/ c \in Letters \/ c = "_"

\* os.path.basename: what follows the last "/"
basename(path) ==
    LET slashes == { i \in 1..Len(path) : path[i] = "/" }
        last == IF slashes = {} THEN 0 ELSE CHOOSE i \in slashes : \A j \in slashes : j <= i
    IN  SubSeq(path, last + 1, Len(path))

\* \b before position i of base (i may be Len(base) + 1): exactly one of the
\* characters around the gap is a word character
WordBoundary(base, i) ==
    LET before == i > 1 /\ IsWordChar(base[i - 1])
        after == i <= Len(base) /\ IsWordChar(base[i])
    IN  before # after

\* r'\b(\d{4})\b' matches at position i of base
MatchAt(base, i) ==
    /\ i + 3 <= Len(base)
    /\ \A j \in i..(i + 3) : base[j] \in Digits
    /\ WordBoundary(base, i)
    /\ WordBoundary(base, i + 4)

\* _infer_machine_id_from_path: re.search returns the leftmost match
_infer_machine_id_from_path(path, default_machine_id) ==
    LET base == basename(path)
        hits == { i \in 1..Len(base) : MatchAt(base, i) }
    IN  IF hits # {}
        THEN LET i == CHOOSE h \in hits : \A g \in hits : h <= g
             IN  SubSeq(base, i, i + 3)
        ELSE default_machine_id

\* int(x) of a float: truncation towards zero
int(x) == IF x.num >= 0 THEN x.num \div x.den ELSE -((-x.num) \div x.den)

SECONDS_PER_DAY == 86400
SECONDS_PER_HOUR == 3600

\* (variant that reports the hours of the whole duration)
_format_duration_total_hours(duration_seconds) ==
    LET total_seconds == int(duration_seconds)
        days == total_seconds \div SECONDS_PER_DAY
        hours == total_seconds \div SECONDS_PER_HOUR
    IN  <<days, "d ", hours, "h">>

\* _format_duration_days_hours: the pieces of f"{days}d {hours}h"
_format_duration_days_hours(duration_seconds) ==
    LET total_seconds == int(duration_seconds)
        days == total_seconds \div SECONDS_PER_DAY
        remaining == total_seconds % SECONDS_PER_DAY
        hours == remaining \div SECONDS_PER_HOUR
    IN  <<days, "d ", hours, "h">>

(* ---------------------------- aggregate_summaries ---------------------- *)
\* ord() of the characters that occur in paths and machine ids
Ord(c) ==
    CASE c = "-" -> 45 [] c = "." -> 46 [] c = "/" -> 47
      [] c = "0" -> 48 [] c = "1" -> 49 [] c = "2" -> 50 [] c = "3" -> 51 [] c = "4" -> 52
      [] c = "5" -> 53 [] c = "6" -> 54 [] c = "7" -> 55 [] c = "8" -> 56 [] c = "9" -> 57
      [] c = "_" -> 95 [] c = "a" -> 97 [] c = "c" -> 99 [] c = "g" -> 103 [] c = "l" -> 108
      [] c = "m" -> 109 [] c = "n" -> 110 [] c = "o" -> 111 [] c = "r" -> 114
      [] c = "s" -> 115 [] c = "u" -> 117 [] c = "v" -> 118

RECURSIVE StrLess(_, _)
\* a < b for two str values
StrLess(a, b) ==
    IF b = <<>> THEN FALSE
    ELSE IF a = <<>> THEN TRUE
    ELSE IF a[1] = b[1] THEN StrLess(Tail(a), Tail(b))
    ELSE Ord(a[1]) < Ord(b[1])

\* f"{x:.2f}": x in hundredths, rounded to the nearest
Format2f(x) == (2 * 100 * x.num + x.den) \div (2 * x.den)

RECURSIVE join(_, _)
\* sep.join(parts), as the sequence of its pieces
join(sep, parts) ==
    IF parts = <<>> THEN <<>>
    ELSE IF Len(parts) = 1 THEN <<parts[1]>>
    ELSE <<parts[1], sep>> \o join(sep, Tail(parts))

\* (variant that flags a log whatever its peak counts are)
Flags_always(cpu_peak_count, mem_peak_count) ==
    (IF cpu_peak_count >= 0 THEN <<"CPU_PEAKS">> ELSE <<>>)
    \o (IF mem_peak_count >= 0 THEN <<"MEM_PEAKS">> ELSE <<>>)

\* the flags list of a row
Flags(cpu_peak_count, mem_peak_count) ==
    (IF cpu_peak_count > 0 THEN <<"CPU_PEAKS">> ELSE <<>>)
    \o (IF mem_peak_count > 0 THEN <<"MEM_PEAKS">> ELSE <<>>)

\* the dict appended to rows for a loaded analyzer; start_time is the time of
\* day "%Y-%m-%d %H:%M:%S" on the integer axis
RowOf(self, path, default_machine_id) ==
    [ machine_id |-> _infer_machine_id_from_path(path, default_machine_id),
      start_time |-> IF self.timestamps # <<>>
                     THEN self.start_datetime.v + self.timestamps[1]
                     ELSE self.start_datetime.v,
      duration |-> _format_duration_days_hours(FromInt(self.duration_seconds)),
      cpu_avg |-> self.avg_cpu,
      cpu_peak_count |-> Len(self.cpu_peaks),
      mem_avg |-> self.avg_mem,
      mem_peak_count |-> Len(self.memory_peaks),
      flags |-> join(",", Flags(Len(self.cpu_peaks), Len(self.memory_peaks))),
      source |-> path ]

\* one pass of "for path in filepaths": the analyzer after load_data, whether
\* it loaded, what went to stderr and the row to append
LoadOne(path, file, cpu_peak_criteria, ram_peak_criteria, default_machine_id) ==
    LET r == load_data(DataAnalyzer(path, cpu_peak_criteria, ram_peak_criteria), file)
    IN  IF ~ r.ret
        THEN [ self |-> r.self, ok |-> FALSE, row |-> <<>>,
               err |-> Append(r.err, <<"Warning: Skipping file due to load error:", path>>) ]
        ELSE [ self |-> r.self, ok |-> TRUE,
               row |-> <<RowOf(r.self, path, default_machine_id)>>, err |-> <<>> ]

\* (variant of the sort key without the source path)
KeyLess_no_source(r1, r2) ==
    \/ StrLess(r1.machine_id, r2.machine_id)
    \/ /\ r1.machine_id = r2.machine_id
       /\ r1.start_time < r2.start_time

\* key(r1) < key(r2) for key = (machine_id, start_time, source)
KeyLess(r1, r2) ==
    \/ StrLess(r1.machine_id, r2.machine_id)
    \/ /\ r1.machine_id = r2.machine_id
       /\ \/ r1.start_time < r2.start_time
          \/ /\ r1.start_time = r2.start_time
             /\ StrLess(r1.source, r2.source)

RECURSIVE Insert(_, _)
\* put r behind every element of the sorted list whose key is not greater
Insert(sorted, r) ==
    IF sorted = <<>> THEN <<r>>
    ELSE IF KeyLess(r, sorted[1]) THEN <<r>> \o sorted
    ELSE <<sorted[1]>> \o Insert(Tail(sorted), r)

RECURSIVE sort(_)
\* list.sort(key=...): ascending and stable
sort(list) ==
    IF list = <<>> THEN <<>>
    ELSE Insert(sort(SubSeq(list, 1, Len(list) - 1)), list[Len(list)])

\* the line printed for a row
RowLine(r) ==
    <<"|", r.machine_id, r.start_time, r.duration, Format2f(r.cpu_avg), r.cpu_peak_count,
      Format2f(r.mem_avg), r.mem_peak_count, r.flags>>

TableHeader ==
    << <<"=== Aggregated Summary Report ===">>,
       <<"| machine_id | start_time | duration(days and hours) | cpu_avg_% | cpu_peak_count | mem_avg | mem_peak_count | flags |">>,
       <<"| :--- | :--- | :--- | ---: | ---: | ---: | ---: | :--- |">> >>

\* (variant that prints the table head even without rows)
Report_always_table(list) ==
    TableHeader \o [k \in 1..Len(list) |-> RowLine(sort(list)[k])] \o << <<"">> >>

\* what aggregate_summaries prints once the loop is over
Report(list) ==
    IF list = <<>> THEN << <<"No valid data loaded for aggregation.">> >>
    ELSE TableHeader \o [k \in 1..Len(list) |-> RowLine(sort(list)[k])] \o << <<"">> >>

\* the paths that may be given to --aggregate-summaries
PathDash == <<"r", "u", "n", "-", "1", "2", "3", "4", ".", "c", "s", "v">>
PathUnderscore == <<"n", "_", "5", "6", "7", "8", "_", "m", ".", "c", "s", "v">>
PathDir == <<"9", "9", "9", "9", "/", "l", "o", "g", ".", "c", "s", "v">>
AggPaths == { PathDash, PathUnderscore, PathDir }

\* most paths on one command line
MaxPaths == 2

\* the logs found at those paths
LogEarly ==
    TextFile(<< HeaderRow,
                <<Field("ts", 0), Field("num", 1), Field("num", 3)>>,
                <<Field("ts", 1), Field("num", 3), Field("num", 1)>> >>)
LogLate ==
    TextFile(<< HeaderRow,
                <<Field("bad", 0), Field("num", 1), Field("num", 3)>>,
                <<Field("ts", 1), Field("num", 3), Field("num", 3)>> >>)
LogBusy ==
    TextFile(<< HeaderRow, <<Field("ts", 0), Field("num", 3), Field("num", 3)>> >>)
AggFiles == { MissingFile, TextFile(<<HeaderRow>>), LogEarly, LogLate, LogBusy }

(* ------------- one log analysed under a command line and a config ----- *)
\* --cpu-peak-percentage and --ram-peak-percentage as typed (type=float, no
\* choices): absent, in range, below 0, above 100
OptCpuPeakPercentages == { <<>>, <<10>>, <<50>>, <<-1>>, <<101>> }
OptRamPeakPercentages == { <<>>, <<30>>, <<-1>>, <<101>> }
OptCommandLines ==
    { CommandLine(<<LogPath>>, <<>>, <<>>, s, w, c, r, <<>>, <<>>) :
        s \in BOOLEAN, w \in BOOLEAN, c \in OptCpuPeakPercentages, r \in OptRamPeakPercentages }

\* a config file that holds at most the two analysis thresholds
ConfigWith(cpu_entry, ram_entry) ==
    << [ section \in ConfigSections |->
           [ key \in ConfigKeys |->
               IF section = "analysis" /\ key = "cpu_peak_percentage" THEN cpu_entry
               ELSE IF section = "analysis" /\ key = "ram_peak_percentage" THEN ram_entry
               ELSE <<>> ] ] >>

\* no --config-file, or a file whose entries are absent, plain numbers,
\* {value: ...} mappings or mappings without "value"
Configs ==
    { NoConfig }
    \cup { ConfigWith(c, r) :
             c \in { <<>>, <<"plain", 10>>, <<"mapping", <<10>>>>, <<"mapping", <<>>>> },
             r \in { <<>>, <<"plain", 20>> } }

OptFiles == { MissingFile, TextFile(<<HeaderRow>>), LogEarly }

InitOptions ==
    /\ fs \in OptFiles
    /\ args = <<>>
    /\ pc = "start"
    /\ analyzer = <<>>
    /\ stdout = <<>>
    /\ stderr = <<>>
    /\ exit_status = <<>>
    /\ window = FALSE
    /\ bench = [k \in 1..NumAnalyzers |-> [obj |-> <<>>, ret |-> "none"]]
    /\ argv \in { <<a>> : a \in OptCommandLines }
    /\ config \in Configs
    /\ disk = NoDisk
    /\ rows = <<>>
    /\ idx = 0
    /\ probe = NoProbe
    /\ ColIdle

NextOptions ==
    \/ ResolveOptions(argv[1], config)
    \/ NewAnalyzer
    \/ LoadData
    \/ ShowSummary
    \/ ShowMetricsWindow
    \/ NoAction
    \/ Return

SpecOptions == InitOptions /\ [][NextOptions]_vars

(* ------------------------- main, --aggregate-summaries ----------------- *)
AggMachineIds == { <<>>, << <<"0", "0", "0", "7">> >> }
AggPercentages == { <<0>>, <<50>> }
AggCommandLines ==
    { CommandLine(<<>>, <<paths>>, <<>>, FALSE, FALSE, c, r, <<>>, m) :
        paths \in SeqsUpTo(AggPaths, MaxPaths) \ { <<>> },
        c \in AggPercentages, r \in AggPercentages, m \in AggMachineIds }

InitAgg ==
    /\ fs = MissingFile
    /\ args = <<>>
    /\ pc = "start"
    /\ analyzer = <<>>
    /\ stdout = <<>>
    /\ stderr = <<>>
    /\ exit_status = <<>>
    /\ window = FALSE
    /\ bench = [k \in 1..NumAnalyzers |-> [obj |-> <<>>, ret |-> "none"]]
    /\ argv = <<>>
    /\ config = NoConfig
    /\ disk \in [AggPaths -> AggFiles]
    /\ rows = <<>>
    /\ idx = 0
    /\ probe = NoProbe
    /\ ColIdle

\* (variant that leaves the loop at the first log that fails to load)
AggregateFile_break ==
    /\ pc = "aggregate"
    /\ idx < Len(args[1].aggregate_summaries[1])
    /\ LET path == args[1].aggregate_summaries[1][idx + 1]
           r == LoadOne(path, disk[path], PeakRatio(args[1].cpu_peak_percentage),
                        PeakRatio(args[1].ram_peak_percentage), args[1].machine_id)
       IN  /\ analyzer' = <<r.self>>
           /\ stderr' = stderr \o r.err
           /\ rows' = rows \o r.row
           /\ idx' = IF r.ok THEN idx + 1 ELSE Len(args[1].aggregate_summaries[1])
    /\ UNCHANGED <<fs, args, pc, stdout, exit_status, window, bench, argv, config, disk, probe, col>>

\* (variant that builds one analyzer before the loop and loads every log into it)
AggregateFile_shared_analyzer ==
    /\ pc = "aggregate"
    /\ idx < Len(args[1].aggregate_summaries[1])
    /\ LET path == args[1].aggregate_summaries[1][idx + 1]
           fresh == DataAnalyzer(path, PeakRatio(args[1].cpu_peak_percentage),
                                 PeakRatio(args[1].ram_peak_percentage))
           shared == IF analyzer = <<>> THEN fresh ELSE [analyzer[1] EXCEPT !.filepath = path]
           r == load_data(shared, disk[path])
       IN  /\ analyzer' = <<r.self>>
           /\ stderr' = stderr \o (IF r.ret THEN <<>>
                                    ELSE Append(r.err, <<"Warning: Skipping file due to load error:", path>>))
           /\ rows' = rows \o (IF r.ret THEN <<RowOf(r.self, path, args[1].machine_id)>> ELSE <<>>)
           /\ idx' = idx + 1
    /\ UNCHANGED <<fs, args, pc, stdout, exit_status, window, bench, argv, config, disk, probe, col>>

\* aggregate_summaries: one pass of the loop over filepaths
AggregateFile ==
    /\ pc = "aggregate"
    /\ idx < Len(args[1].aggregate_summaries[1])
    /\ LET path == args[1].aggregate_summaries[1][idx + 1]
           r == LoadOne(path, disk[path], PeakRatio(args[1].cpu_peak_percentage),
                        PeakRatio(args[1].ram_peak_percentage), args[1].machine_id)
       IN  /\ analyzer' = <<r.self>>
           /\ stderr' = stderr \o r.err
           /\ rows' = rows \o r.row
           /\ idx' = idx + 1
    /\ UNCHANGED <<fs, args, pc, stdout, exit_status, window, bench, argv, config, disk, probe, col>>

\* aggregate_summaries after the loop: the "no data" notice, or sort and print
AggregatePrint ==
    /\ pc = "aggregate"
    /\ idx = Len(args[1].aggregate_summaries[1])
    /\ rows' = sort(rows)
    /\ stdout' = stdout \o Report(rows)
    /\ pc' = "return"
    /\ UNCHANGED <<fs, args, analyzer, stderr, exit_status, window, bench, argv, config, disk,
                   idx, probe, col>>

NextAgg ==
    \/ \E a \in AggCommandLines : ResolveOptions(a, NoConfig)
    \/ AggregateFile
    \/ AggregatePrint
    \/ Return

SpecAgg == InitAgg /\ [][NextAgg]_vars

(* ---------------------------- DataCollector ---------------------------- *)
\* the header row and the name of the collector's log
Text(string) == [k |-> "text", v |-> string]
CsvHeader == <<Text("Timestamp"), Text("CPU_Usage_%"), Text("Memory_MB")>>
MonitorCsv == "monitor.csv"

\* DataCollector.__init__ up to the call of _init_csv_logging; <<>> stands
\* for None and for an empty deque
DataCollector(process_id, sample_rate) ==
    [ process_id |-> process_id,
      sample_rate |-> sample_rate,
      log_file |-> <<MonitorCsv>>,
      process |-> <<>>,
      max_samples |-> 1000,
      timestamps |-> <<>>,
      cpu_data |-> <<>>,
      memory_data |-> <<>>,
      total_elapsed_time |-> 0,
      sample_rate_var |-> <<>>,
      monitoring |-> FALSE,
      consecutive_failures |-> 0,
      max_consecutive_failures |-> 10 ]

\* deque(maxlen=...).append
append(d, x, maxlen) ==
    IF Len(d) >= maxlen THEN Tail(d) \o <<x>> ELSE Append(d, x)

\* what psutil reads at a tick of the clock: the CPU load and the free memory
cpu_percent(clock) == clock % 3
memory_mb(clock) == 100 - clock

\* collect_metrics succeeds unless the process is gone (NoSuchProcess) or
\* psutil fails for the time being
CollectOk == env.target # "gone" /\ ~ env.failing

\* the loop is inside "while self.monitoring", in headless or window mode
LoopPcs == {"loop", "store", "append_timestamps", "append_cpu", "append_memory", "write", "sleep"}

\* the text in the sample-rate field: what float() makes of it
RateTexts == { [k |-> "num", v |-> FromInt(2)], [k |-> "num", v |-> FromInt(0)],
               [k |-> "num", v |-> FromInt(-1)], [k |-> "num", v |-> nan], [k |-> "bad", v |-> nan] }

\* the row write_log writes for the sample taken at a tick of the clock
LogRow(clock) ==
    <<Field("ts", clock), Field("num", cpu_percent(clock)), Field("num", memory_mb(clock))>>

\* str(self.sample_rate) as written back to the field
str(x) == [k |-> "num", v |-> x]

\* main, collection mode: DataCollector(...) with _init_csv_logging
CreateCollector ==
    /\ pc = "collect"
    /\ collector' = << [DataCollector(args[1].process_id, args[1].sample_rate)
                          EXCEPT !.log_file = IF env.writable THEN @ ELSE <<>>] >>
    /\ env' = [env EXCEPT !.log = IF env.writable THEN << <<CsvHeader>> >> ELSE @]
    /\ stdout' = stdout \o << <<"Machine ID:", args[1].machine_id>>, <<"Logging to:", MonitorCsv>> >>
    /\ stderr' = IF env.writable THEN stderr
                 ELSE Append(stderr, <<"Warning: Could not open log file", MonitorCsv>>)
    /\ pc' = "created"
    /\ UNCHANGED <<fs, args, analyzer, exit_status, window, bench, argv, config, disk, rows, idx,
                   probe, lock>>

\* app.run() up to the loop: get_process, then self.monitoring = True;
\* sys.exit(1) when the process cannot be found
Run ==
    /\ pc = "created"
    /\ ~ env.gui
    /\ IF collector[1].process_id # <<>> /\ env.target = "gone"
       THEN /\ stderr' = Append(stderr, <<"Error: Process not found", collector[1].process_id[1]>>)
            /\ exit_status' = <<1>>
            /\ pc' = "exited"
            /\ UNCHANGED <<collector, stdout>>
       ELSE /\ collector' = << [collector[1] EXCEPT !.process = collector[1].process_id,
                                                     !.monitoring = TRUE] >>
            /\ stdout' = stdout \o << <<"Monitoring started at", env.clock>>,
                                      <<"Press Ctrl+C to stop.">> >>
            /\ pc' = "loop"
            /\ UNCHANGED <<stderr, exit_status>>
    /\ UNCHANGED <<fs, args, analyzer, window, bench, argv, config, disk, rows, idx, probe, env,
                   lock>>

\* setup_gui and start_monitoring: the sample-rate field shows the rate and
\* the loop starts on its own thread (main never does this; the methods are
\* there for a front end with a window)
StartMonitoring ==
    /\ pc = "created"
    /\ env.gui
    /\ collector' = << [collector[1] EXCEPT !.sample_rate_var = <<str(collector[1].sample_rate)>>,
                                            !.monitoring = TRUE] >>
    /\ stdout' = stdout \o << <<"Monitoring started at", env.clock>>, <<"Press Ctrl+C to stop.">> >>
    /\ pc' = "loop"
    /\ UNCHANGED <<fs, args, analyzer, stderr, exit_status, window, bench, argv, config, disk,
                   rows, idx, probe, env, lock>>

\* the variables the monitoring loop never touches
loop_frame == <<fs, args, analyzer, exit_status, window, bench, argv, config, disk, rows, idx, probe>>

\* (variant of CollectSample that counts failures without ever resetting the count)
CollectSample_no_reset ==
    /\ pc = "loop"
    /\ IF ~ collector[1].monitoring
       THEN pc' = "finally" /\ UNCHANGED <<collector, stdout, stderr, env>>
       ELSE IF CollectOk
       THEN /\ env.taken < env.cap
            /\ env' = [env EXCEPT !.taken = @ + 1]
            /\ pc' = "store"
            /\ UNCHANGED <<collector, stdout, stderr>>
       ELSE LET n == collector[1].consecutive_failures + 1
            IN  /\ env' = env
                /\ collector' = << [collector[1] EXCEPT !.consecutive_failures = n] >>
                /\ stderr' = IF env.target = "gone" THEN stderr
                             ELSE Append(stderr, <<"Warning: Error collecting metrics:">>)
                /\ IF n >= collector[1].max_consecutive_failures
                   THEN /\ stdout' = stdout \o
                              << <<"Error: Process not accessible (failures:", n>>,
                                 <<"Error: Process terminated or inaccessible. Stopping monitoring.">> >>
                        /\ pc' = "finally"
                   ELSE /\ stdout' = Append(stdout, <<"Error: Process not accessible (failures:", n>>)
                        /\ pc' = "sleep"
    /\ UNCHANGED <<loop_frame, lock>>

\* monitoring_loop: the test of "while self.monitoring", collect_metrics and
\* the bookkeeping of consecutive_failures, with the break after too many
CollectSample ==
    /\ pc = "loop"
    /\ IF ~ collector[1].monitoring
       THEN pc' = "finally" /\ UNCHANGED <<collector, stdout, stderr, env>>
       ELSE IF CollectOk
       THEN /\ env.taken < env.cap
            /\ env' = [env EXCEPT !.taken = @ + 1]
            /\ collector' = << [collector[1] EXCEPT !.consecutive_failures = 0] >>
            /\ pc' = "store"
            /\ UNCHANGED <<stdout, stderr>>
       ELSE LET n == collector[1].consecutive_failures + 1
            IN  /\ env' = env
                /\ collector' = << [collector[1] EXCEPT !.consecutive_failures = n] >>
                /\ stderr' = IF env.target = "gone" THEN stderr
                             ELSE Append(stderr, <<"Warning: Error collecting metrics:">>)
                /\ IF n >= collector[1].max_consecutive_failures
                   THEN /\ stdout' = stdout \o
                              << <<"Error: Process not accessible (failures:", n>>,
                                 <<"Error: Process terminated or inaccessible. Stopping monitoring.">> >>
                        /\ pc' = "finally"
                   ELSE /\ stdout' = Append(stdout, <<"Error: Process not accessible (failures:", n>>)
                        /\ pc' = "sleep"
    /\ UNCHANGED <<loop_frame, lock>>

\* (variant that appends without taking the lock)
StoreAcquire_no_lock ==
    /\ pc = "store"
    /\ pc' = "append_timestamps"
    /\ UNCHANGED <<loop_frame, stdout, stderr, collector, env, lock>>

\* "with self.lock:" of the loop
StoreAcquire ==
    /\ pc = "store"
    /\ lock = "free"
    /\ lock' = "monitor"
    /\ pc' = "append_timestamps"
    /\ UNCHANGED <<loop_frame, stdout, stderr, collector, env>>

\* self.timestamps.append(elapsed)
AppendTimestamps ==
    /\ pc = "append_timestamps"
    /\ collector' = << [collector[1] EXCEPT
                          !.timestamps = append(@, env.clock, collector[1].max_samples)] >>
    /\ pc' = "append_cpu"
    /\ UNCHANGED <<loop_frame, stdout, stderr, env, lock>>

\* self.cpu_data.append(cpu_percent)
AppendCpu ==
    /\ pc = "append_cpu"
    /\ collector' = << [collector[1] EXCEPT
                          !.cpu_data = append(@, cpu_percent(env.clock), collector[1].max_samples)] >>
    /\ pc' = "append_memory"
    /\ UNCHANGED <<loop_frame, stdout, stderr, env, lock>>

\* self.memory_data.append(memory_mb), self.total_elapsed_time = elapsed and
\* the end of the with block
AppendMemory ==
    /\ pc = "append_memory"
    /\ collector' = << [collector[1] EXCEPT
                          !.memory_data = append(@, memory_mb(env.clock), collector[1].max_samples),
                          !.total_elapsed_time = env.clock] >>
    /\ lock' = "free"
    /\ pc' = "write"
    /\ UNCHANGED <<loop_frame, stdout, stderr, env>>

\* (variant that writes the header again before every row)
WriteLog_with_header ==
    /\ pc = "write"
    /\ env' = IF collector[1].log_file # <<>>
              THEN [env EXCEPT !.log = << @[1] \o <<CsvHeader, LogRow(env.clock)>> >>]
              ELSE env
    /\ pc' = "sleep"
    /\ UNCHANGED <<loop_frame, stdout, stderr, collector, lock>>

\* if self.log_file: self.write_log(timestamp, cpu_percent, memory_mb)
WriteLog ==
    /\ pc = "write"
    /\ env' = IF collector[1].log_file # <<>>
              THEN [env EXCEPT !.log = << Append(@[1], LogRow(env.clock)) >>]
              ELSE env
    /\ pc' = "sleep"
    /\ UNCHANGED <<loop_frame, stdout, stderr, collector, lock>>

\* time.sleep(max(0, self.sample_rate - loop_elapsed)): the clock moves on
Sleep ==
    /\ pc = "sleep"
    /\ env' = [env EXCEPT !.clock = @ + 1]
    /\ pc' = "loop"
    /\ UNCHANGED <<loop_frame, stdout, stderr, collector, lock>>

\* Ctrl+C while the loop runs on the main thread: "except KeyboardInterrupt:
\* pass"; a with block that is left gives the lock back
Interrupt ==
    /\ pc \in LoopPcs
    /\ ~ env.gui
    /\ pc' = "finally"
    /\ lock' = IF lock = "monitor" THEN "free" ELSE lock
    /\ UNCHANGED <<loop_frame, stdout, stderr, collector, env>>

\* (variant in which stop_monitoring never comes back)
StopMonitoring_hangs ==
    /\ pc = "finally"
    /\ UNCHANGED vars

\* finally: self.stop_monitoring(); then run returns True and main ends, or
\* the monitoring thread is over
StopMonitoring ==
    /\ pc = "finally"
    /\ collector' = << [collector[1] EXCEPT !.monitoring = FALSE] >>
    /\ pc' = IF env.gui THEN "thread_done" ELSE "return"
    /\ UNCHANGED <<loop_frame, stdout, stderr, env, lock>>

\* update_chart and on_x_scroll: "with self.lock:" around the reading of the
\* three deques
GuiRead ==
    /\ env.gui
    /\ pc \in LoopPcs \cup {"finally", "thread_done"}
    /\ lock = "free"
    /\ lock' = "gui"
    /\ UNCHANGED <<loop_frame, pc, stdout, stderr, collector, env>>

\* the end of that with block
GuiRelease ==
    /\ lock = "gui"
    /\ lock' = "free"
    /\ UNCHANGED <<loop_frame, pc, stdout, stderr, collector, env>>

\* DataCollector.on_sample_rate_change with text in the field
on_sample_rate_change(self, text) ==
    IF text.k = "bad" THEN [self EXCEPT !.sample_rate_var = <<str(self.sample_rate)>>]
    ELSE IF float_gt_0(text.v)
    THEN [self EXCEPT !.sample_rate = text.v, !.sample_rate_var = <<text>>]
    ELSE [self EXCEPT !.sample_rate_var = <<str(self.sample_rate)>>]

\* the user leaves the sample-rate field or presses Return in it
OnSampleRateChange(text) ==
    /\ env.gui
    /\ pc \in LoopPcs
    /\ lock = "free"
    /\ collector' = << on_sample_rate_change(collector[1], text) >>
    /\ UNCHANGED <<loop_frame, pc, stdout, stderr, env, lock>>

\* the monitored process ends
TargetExits ==
    /\ env.target = "alive"
    /\ env' = [env EXCEPT !.target = "gone"]
    /\ UNCHANGED <<loop_frame, pc, stdout, stderr, collector, lock>>

\* psutil starts to fail for a while, and recovers (one spell in the runs
\* followed)
FaultBegins ==
    /\ pc \in LoopPcs
    /\ ~ env.failing
    /\ env.bursts > 0
    /\ env' = [env EXCEPT !.failing = TRUE, !.bursts = @ - 1]
    /\ UNCHANGED <<loop_frame, pc, stdout, stderr, collector, lock>>
FaultEnds ==
    /\ env.failing
    /\ env' = [env EXCEPT !.failing = FALSE]
    /\ UNCHANGED <<loop_frame, pc, stdout, stderr, collector, lock>>

(* ------------------------- main, collection mode ----------------------- *)
\* most samples that succeed
MaxTicks == 2

\* --process-id and --sample-rate as typed
ProcessIds == { <<>>, <<7>> }
CollectSampleRates == { <<>>, <<FromInt(0)>>, <<nan>> }
CollectCommandLines ==
    { CommandLine(<<>>, <<>>, p, FALSE, FALSE, <<>>, <<>>, sr, <<>>) :
        p \in ProcessIds, sr \in CollectSampleRates }

\* a config file that holds at most collection.sample_rate
ConfigSampleRate(entry) ==
    << [ section \in ConfigSections |->
           [ key \in ConfigKeys |->
               IF section = "collection" /\ key = "sample_rate" THEN entry ELSE <<>> ] ] >>
CollectConfigs ==
    { NoConfig, ConfigSampleRate(<<"mapping", <<FromInt(0)>>>>),
      ConfigSampleRate(<<"plain", FromInt(2)>>) }

\* the surroundings of a run: the state of the monitored process ("none"
\* without one), whether a window is up, whether the log can be opened, the
\* log file (<<>> while there is none), the clock, the samples taken, and how
\* far the run is followed
Env(target, gui, writable, cap, bursts) ==
    [ target |-> target, gui |-> gui, writable |-> writable, log |-> <<>>, clock |-> 0,
      taken |-> 0, failing |-> FALSE, cap |-> cap, bursts |-> bursts ]

InitCollect ==
    /\ fs = MissingFile
    /\ args = <<>>
    /\ pc = "start"
    /\ analyzer = <<>>
    /\ stdout = <<>>
    /\ stderr = <<>>
    /\ exit_status = <<>>
    /\ window = FALSE
    /\ bench = [k \in 1..NumAnalyzers |-> [obj |-> <<>>, ret |-> "none"]]
    /\ argv \in { <<a>> : a \in CollectCommandLines }
    /\ config \in CollectConfigs
    /\ disk = NoDisk
    /\ rows = <<>>
    /\ idx = 0
    /\ probe = NoProbe
    /\ collector = <<>>
    /\ \E gui \in BOOLEAN, writable \in BOOLEAN :
          /\ gui => argv[1].process_id = <<>>
          /\ env = Env(IF argv[1].process_id = <<>> THEN "none" ELSE "alive",
                       gui, writable, MaxTicks, 1)
    /\ lock = "free"

NextCollect ==
    \/ ResolveOptions(argv[1], config)
    \/ CreateCollector
    \/ Run
    \/ StartMonitoring
    \/ CollectSample
    \/ StoreAcquire
    \/ AppendTimestamps
    \/ AppendCpu
    \/ AppendMemory
    \/ WriteLog
    \/ Sleep
    \/ Interrupt
    \/ StopMonitoring
    \/ Return
    \/ GuiRead
    \/ GuiRelease
    \/ \E text \in RateTexts : OnSampleRateChange(text)
    \/ TargetExits
    \/ FaultBegins
    \/ FaultEnds

SpecCollect == InitCollect /\ [][NextCollect]_vars

\* the loop and what follows it run on as long as they can; a reader gives
\* the lock back
LoopStep ==
    \/ CollectSample
    \/ StoreAcquire
    \/ AppendTimestamps
    \/ AppendCpu
    \/ AppendMemory
    \/ WriteLog
    \/ Sleep
    \/ StopMonitoring
    \/ Return

SpecCollectLive == SpecCollect /\ WF_vars(LoopStep) /\ WF_vars(GuiRelease)

(* ------------------ a long run with a window, system-wide -------------- *)
\* ticks followed in the long run: enough to fill the deques and go on
RollTicks == 1002

InitRoll ==
    /\ fs = MissingFile
    /\ args = <<>>
    /\ pc = "start"
    /\ analyzer = <<>>
    /\ stdout = <<>>
    /\ stderr = <<>>
    /\ exit_status = <<>>
    /\ window = FALSE
    /\ bench = [k \in 1..NumAnalyzers |-> [obj |-> <<>>, ret |-> "none"]]
    /\ argv = << CommandLine(<<>>, <<>>, <<>>, FALSE, FALSE, <<>>, <<>>, <<>>, <<>>) >>
    /\ config = NoConfig
    /\ disk = NoDisk
    /\ rows = <<>>
    /\ idx = 0
    /\ probe = NoProbe
    /\ collector = <<>>
    /\ env = Env("none", TRUE, FALSE, RollTicks, 0)
    /\ lock = "free"

NextRoll ==
    \/ ResolveOptions(argv[1], config)
    \/ CreateCollector
    \/ StartMonitoring
    \/ CollectSample
    \/ StoreAcquire
    \/ AppendTimestamps
    \/ AppendCpu
    \/ AppendMemory
    \/ WriteLog
    \/ Sleep
    \/ GuiRead
    \/ GuiRelease

SpecRoll == InitRoll /\ [][NextRoll]_vars

(* ------------- the two helpers applied to many arguments --------------- *)
\* most pieces a probed path is put together from
MaxSegments == 3
Segments ==
    { <<"1", "2", "3", "4">>, <<"5", "6", "7", "8">>, <<"9">>, <<"a">>, <<"_">>, <<"-">>, <<"/">> }
RECURSIVE Concatenations(_)
Concatenations(n) ==
    IF n = 0 THEN { <<>> }
    ELSE LET shorter == Concatenations(n - 1)
         IN  shorter \cup { p \o g : p \in shorter, g \in Segments }
ProbePaths == Concatenations(MaxSegments)
ProbeDefaults == { <<"0", "0", "0", "0">>, DerivedMachineId }

\* durations in seconds, whole and half, around the hour and day marks
DurationNums ==
    { -4, 0, 1, 3599, 3600, 3601, 7199, 7200, 86399, 86400, 86401, 89999, 90000,
      172799, 172800, 172801, 192599, 259200 }
Durations == { Rat(n, d) : n \in DurationNums, d \in {1, 2} }

InferProbe(path, default_machine_id) ==
    [ fn |-> "infer", path |-> path, default |-> default_machine_id,
      duration |-> FromInt(0), out |-> <<>> ]
FormatProbe(duration_seconds) ==
    [ fn |-> "format", path |-> <<>>, default |-> <<>>,
      duration |-> duration_seconds, out |-> <<>> ]

InitPure ==
    /\ fs = MissingFile
    /\ args = <<>>
    /\ pc = "start"
    /\ analyzer = <<>>
    /\ stdout = <<>>
    /\ stderr = <<>>
    /\ exit_status = <<>>
    /\ window = FALSE
    /\ bench = [k \in 1..NumAnalyzers |-> [obj |-> <<>>, ret |-> "none"]]
    /\ argv = <<>>
    /\ config = NoConfig
    /\ disk = NoDisk
    /\ rows = <<>>
    /\ idx = 0
    /\ probe \in { <<InferProbe(p, d)>> : p \in ProbePaths, d \in ProbeDefaults }
                 \cup { <<FormatProbe(d)>> : d \in Durations }
    /\ ColIdle

\* machine_id = _infer_machine_id_from_path(path, default_machine_id)
InferMachineId ==
    /\ probe[1].fn = "infer"
    /\ probe[1].out = <<>>
    /\ probe' = << [probe[1] EXCEPT
                      !.out = <<_infer_machine_id_from_path(probe[1].path, probe[1].default)>>] >>
    /\ UNCHANGED <<fs, args, pc, analyzer, stdout, stderr, exit_status, window, bench,
                   argv, config, disk, rows, idx, col>>

\* duration_label = _format_duration_days_hours(analyzer.duration_seconds)
FormatDuration ==
    /\ probe[1].fn = "format"
    /\ probe[1].out = <<>>
    /\ probe' = << [probe[1] EXCEPT !.out = <<_format_duration_days_hours(probe[1].duration)>>] >>
    /\ UNCHANGED <<fs, args, pc, analyzer, stdout, stderr, exit_status, window, bench,
                   argv, config, disk, rows, idx, col>>

NextPure == InferMachineId \/ FormatDuration

SpecPure == InitPure /\ [][NextPure]_vars

(* ======================= properties of the loader ====================== *)
Range(s) == { s[i] : i \in 1..Len(s) }

\* main is past a load_data call that returned True
Succeeded ==
    \/ pc \in {"summary", "window", "no_action", "return"}
    \/ pc = "exited" /\ exit_status = <<0>>
\* main is past its load_data call, whatever it returned
LoadReturned == Succeeded \/ (pc = "exited" /\ exit_status = <<1>>)

\* sample i of a loaded analyzer, all three channels
Sample(a, i) == <<a.timestamps[i], a.cpu_data[i], a.memory_data[i]>>
Samples(a) == [i \in 1..Len(a.timestamps) |-> Sample(a, i)]

\* a data row as the format describes it: at least 3 fields, column 0 a
\* timestamp, columns 1 and 2 numbers
WellFormedRow(row) ==
    /\ Len(row) >= 3
    /\ row[1].k \in {"ts", "tsz"}
    /\ row[2].k = "num"
    /\ row[3].k = "num"
HeaderPresent == fs.exists /\ fs.lines # <<>> /\ fs.lines[1] # <<>>
DataRows == IF fs.lines = <<>> THEN <<>> ELSE Tail(fs.lines)
ValidRows == SelectSeq(DataRows, WellFormedRow)

RECURSIVE IsSubseq(_, _)
\* p can be obtained from s by deleting elements
IsSubseq(p, s) ==
    IF p = <<>> THEN TRUE
    ELSE IF s = <<>> THEN FALSE
    ELSE IF p[1] = s[1] THEN IsSubseq(Tail(p), Tail(s))
    ELSE IsSubseq(p, Tail(s))

RECURSIVE SumTo(_, _)
\* reference sum: s[1] + ... + s[n]
SumTo(s, n) == IF n = 0 THEN 0 ELSE SumTo(s, n - 1) + s[n]

C2_MemPeakIffBelowThreshold ==
    Succeeded =>
        LET a == analyzer[1]
            p == args[1].ram_peak_percentage
        IN  \A i \in 1..Len(a.memory_data) :
                (Sample(a, i) \in Range(a.memory_peaks))
                <=> (a.memory_data[i] * a.avg_mem.den * 100 < a.avg_mem.num * (100 - p))
\* a loaded sample sits exactly on the memory threshold, below the other one
C2_Witness ==
    /\ Succeeded
    /\ LET a == analyzer[1]
           p == args[1].ram_peak_percentage
       IN  /\ \E i \in 1..Len(a.memory_data) :
                  a.memory_data[i] * a.avg_mem.den * 100 = a.avg_mem.num * (100 - p)
           /\ Len(a.memory_data) = 2
           /\ a.memory_data[1] # a.memory_data[2]

\* C3: cpu_peaks and memory_peaks are sub-sequences of the loaded series in
\* row order, and each peak record is the (elapsed, cpu, memory) triple of
\* one sample.
C3_PeaksAreSubsequences ==
    Succeeded =>
        LET a == analyzer[1]
        IN  /\ IsSubseq(a.cpu_peaks, Samples(a))
            /\ IsSubseq(a.memory_peaks, Samples(a))
\* two different CPU peaks and a memory peak in one load
C3_Witness ==
    /\ Succeeded
    /\ LET a == analyzer[1]
       IN  /\ Len(a.cpu_peaks) = 2
           /\ a.cpu_peaks[1] # a.cpu_peaks[2]
           /\ a.cpu_peaks[1][2] # a.cpu_peaks[1][3]
           /\ a.memory_peaks # <<>>

\* C4: after a successful load, avg_cpu is the arithmetic mean of cpu_data
\* (sum divided by count) and avg_mem that of memory_data.
C4_AveragesAreMeans ==
    Succeeded =>
        LET a == analyzer[1]
            n == Len(a.timestamps)
        IN  /\ a.avg_cpu.den # 0
            /\ a.avg_mem.den # 0
            /\ a.avg_cpu.num * n = SumTo(a.cpu_data, n) * a.avg_cpu.den
            /\ a.avg_mem.num * n = SumTo(a.memory_data, n) * a.avg_mem.den
\* two samples with different values on both channels
C4_Witness ==
    /\ Succeeded
    /\ LET a == analyzer[1]
       IN  /\ Len(a.timestamps) = 2
           /\ a.cpu_data[1] # a.cpu_data[2]
           /\ a.memory_data[1] # a.memory_data[2]

\* C5: the loaded series is exactly the well-formed data rows, in file
\* order; every other row is skipped without failing the load, so a log with
\* N well-formed data rows yields a series of length N.
C5_SeriesIsTheWellFormedRows ==
    (LoadReturned /\ HeaderPresent) =>
        LET a == analyzer[1]
        IN  /\ Len(a.timestamps) = Len(ValidRows)
            /\ a.cpu_data = [i \in 1..Len(ValidRows) |-> ValidRows[i][2].v]
            /\ a.memory_data = [i \in 1..Len(ValidRows) |-> ValidRows[i][3].v]
            /\ (ValidRows # <<>> => Succeeded)

\* C6: load_data fails exactly when the path does not exist, the header row
\* is absent, or no data row parses; a file with a header and at least one
\* parseable row always loads.
C6_LoadFailsExactlyWhenNoData ==
    LoadReturned =>
        (~ Succeeded <=> (~ fs.exists \/ ~ HeaderPresent \/ ValidRows = <<>>))

\* C7: in single-run mode a failed load ends the invocation at once with
\* exit status 1 and a diagnostic on stderr, and neither the summary nor the
\* metrics window is ever produced.
C7_LoadFailureIsFatal ==
    /\ [][ (pc = "load" /\ ~ load_data(analyzer[1], fs).ret)
             => (pc' = "exited" /\ exit_status' = <<1>> /\ stderr' # <<>>) ]_vars
    /\ [](exit_status = <<1>> => (pc = "exited" /\ stderr # <<>> /\ stdout = <<>> /\ ~ window))
    /\ []((~ fs.exists \/ ~ HeaderPresent \/ ValidRows = <<>>) => (stdout = <<>> /\ ~ window))
\* a header-only log analysed with --summary --metrices-window has exited with 1
C7_Witness ==
    /\ pc = "exited"
    /\ exit_status = <<1>>
    /\ fs = TextFile(<<HeaderRow>>)
    /\ args[1].summary
    /\ args[1].metrices_window

\* C8: every elapsed time is the row's timestamp minus the timestamp of the
\* first valid row, the first sample has elapsed 0, and start_datetime is the
\* first valid row's timestamp.
C8_ElapsedFromFirstValidRow ==
    Succeeded =>
        LET a == analyzer[1]
        IN  /\ a.timestamps[1] = 0
            /\ a.start_datetime = ValidRows[1][1]
            /\ Len(a.timestamps) = Len(ValidRows)
            /\ \A i \in 1..Len(a.timestamps) :
                   a.timestamps[i] = ValidRows[i][1].v - ValidRows[1][1].v
\* a malformed row with a readable, different timestamp precedes the first valid row
C8_Witness ==
    /\ Succeeded
    /\ Len(DataRows) = 2
    /\ ~ WellFormedRow(DataRows[1])
    /\ Len(DataRows[1]) >= 3
    /\ DataRows[1][1].k = "ts"
    /\ DataRows[1][1] # analyzer[1].start_datetime

\* C9: after a successful load the series is non-empty and its elapsed times
\* are non-decreasing, so duration_seconds is never negative.
C9_ElapsedNonDecreasing ==
    Succeeded =>
        LET a == analyzer[1]
        IN  /\ a.timestamps # <<>>
            /\ \A i \in 1..(Len(a.timestamps) - 1) : a.timestamps[i] <= a.timestamps[i + 1]
            /\ a.duration_seconds >= 0

(* ============== properties of the same log under several ratios ======== *)
Loaded(k) == bench[k].ret = "True"

\* C10 as stated: for any two loads of the same log with ratios r1 <= r2, the
\* number of CPU peaks at r2 is at most the number at r1.
C10_PeakCountMonotone ==
    \A k1, k2 \in 1..NumAnalyzers :
        (/\ Loaded(k1)
         /\ Loaded(k2)
         /\ ~ RLess(bench[k2].obj[1].cpu_peak_criteria, bench[k1].obj[1].cpu_peak_criteria))
        => Len(bench[k2].obj[1].cpu_peaks) <= Len(bench[k1].obj[1].cpu_peaks)

\* C10 amended: the same, for logs whose average cpu_percent is not negative.
C10_PeakCountMonotoneNonNegAvg ==
    \A k1, k2 \in 1..NumAnalyzers :
        (/\ Loaded(k1)
         /\ Loaded(k2)
         /\ bench[k1].obj[1].avg_cpu.num >= 0
         /\ ~ RLess(bench[k2].obj[1].cpu_peak_criteria, bench[k1].obj[1].cpu_peak_criteria))
        => Len(bench[k2].obj[1].cpu_peaks) <= Len(bench[k1].obj[1].cpu_peaks)
\* a log with a positive average loses a CPU peak when the ratio is raised
C10_Witness ==
    \E k1, k2 \in 1..NumAnalyzers :
        /\ Loaded(k1)
        /\ Loaded(k2)
        /\ bench[k1].obj[1].avg_cpu.num > 0
        /\ RLess(bench[k1].obj[1].cpu_peak_criteria, bench[k2].obj[1].cpu_peak_criteria)
        /\ Len(bench[k2].obj[1].cpu_peaks) < Len(bench[k1].obj[1].cpu_peaks)

(* ======================= properties of the helpers ===================== *)
\* the four digits at i..i+3 of base form a token of their own: no letter or
\* digit touches them (separators such as "_", "-", "." may)
StandaloneToken(base, i) ==
    /\ i + 3 <= Len(base)
    /\ \A j \in i..(i + 3) : base[j] \in Digits
    /\ (i = 1 \/ (base[i - 1] \notin Digits /\ base[i - 1] \notin Letters))
    /\ (i + 3 = Len(base) \/ (base[i + 4] \notin Digits /\ base[i + 4] \notin Letters))

\* what follows the last "/" of path, found from the right
RECURSIVE LastComponent(_)
LastComponent(path) ==
    IF path = <<>> \/ path[Len(path)] = "/" THEN <<>>
    ELSE Append(LastComponent(SubSeq(path, 1, Len(path) - 1)), path[Len(path)])

\* C15: _infer_machine_id_from_path looks only at the basename, returns the
\* first standalone run of exactly four digits there, and returns the default
\* id unchanged when the basename has none.
C15_FirstStandaloneToken ==
    (probe # NoProbe /\ probe[1].fn = "infer" /\ probe[1].out # <<>>) =>
        LET base == LastComponent(probe[1].path)
            tokens == { i \in 1..Len(base) : StandaloneToken(base, i) }
        IN  IF tokens = {}
            THEN probe[1].out[1] = probe[1].default
            ELSE \E i \in tokens :
                    /\ \A j \in tokens : i <= j
                    /\ probe[1].out[1] = SubSeq(base, i, i + 3)

\* C18: for a duration d >= 0 the label is "<D>d <H>h" with
\* D = floor(d / 86400) and H = floor((d mod 86400) / 3600), 0 <= H <= 23.
C18_DaysAndHours ==
    (probe # NoProbe /\ probe[1].fn = "format" /\ probe[1].out # <<>>
        /\ probe[1].duration.num >= 0) =>
        LET n == probe[1].duration.num
            m == probe[1].duration.den
            D == n \div (m * 86400)
            H == (n - 86400 * D * m) \div (3600 * m)
        IN  /\ probe[1].out[1] = <<D, "d ", H, "h">>
            /\ 0 <= H
            /\ H <= 23
\* two days, five and a half hours: "2d 5h"
C18_Witness ==
    /\ probe # NoProbe
    /\ probe[1].fn = "format"
    /\ probe[1].duration = Rat(192599, 1)
    /\ probe[1].out = << <<2, "d ", 5, "h">> >>

(* ===================== properties of the aggregator ==================== *)
\* the aggregate run has printed its report
AggDone == pc \in {"return", "exited"} /\ args # <<>> /\ args[1].aggregate_summaries # <<>>

\* the paths of the command line
filepaths == args[1].aggregate_summaries[1]

\* load_data succeeds on the log at the path
Loads(path) ==
    load_data(DataAnalyzer(path, PeakRatio(args[1].cpu_peak_percentage),
                           PeakRatio(args[1].ram_peak_percentage)), disk[path]).ret

Occurrences(seq, x) == Cardinality({ i \in 1..Len(seq) : seq[i] = x })

\* the data rows of the printed table
IsRowLine(line) == line[1] = "|"
TableRows == SelectSeq(stdout, IsRowLine)

\* the warnings printed for a path
IsWarning(line) == line[1] = "Warning: Skipping file due to load error:"
WarningsFor(path) ==
    Cardinality({ i \in 1..Len(stderr) : IsWarning(stderr[i]) /\ stderr[i][2] = path })

\* C11: the table has exactly one data row per input path whose load succeeds
\* (a path given twice gives two rows with the same column values); a path
\* whose load fails gives no row, only a warning, and the paths after it are
\* still processed.
C11_OneRowPerLoadedPath ==
    AggDone =>
        /\ Len(TableRows) = Cardinality({ i \in 1..Len(filepaths) : Loads(filepaths[i]) })
        /\ TableRows = [k \in 1..Len(rows) |-> RowLine(rows[k])]
        /\ \A path \in AggPaths :
              /\ Cardinality({ k \in 1..Len(rows) : rows[k].source = path })
                   = IF Loads(path) THEN Occurrences(filepaths, path) ELSE 0
              /\ WarningsFor(path)
                   = IF Loads(path) THEN 0 ELSE Occurrences(filepaths, path)
        /\ \A j, k \in 1..Len(rows) :
              rows[j].source = rows[k].source => RowLine(rows[j]) = RowLine(rows[k])

\* a run whose first log fails to load and whose second log gives the one row
C11_Witness ==
    /\ pc = "exited"
    /\ args[1].aggregate_summaries = << <<PathDash, PathDir>> >>
    /\ ~ Loads(PathDash)
    /\ Loads(PathDir)
    /\ Len(TableRows) = 1
    /\ WarningsFor(PathDash) = 1

C13_MissingFileIsAnError ==
    (pc = "exited" /\ args[1].aggregate_summaries # <<>> /\ Len(filepaths) = 1
        /\ disk[filepaths[1]] = MissingFile) =>
        /\ exit_status # <<0>>
        /\ \E i \in 1..Len(stderr) : stderr[i][1] = "Error: File not found:"

\* C14: a log whose file name holds 5678 between underscores gets the machine
\* id "5678" in its row, whatever the default machine id is.
C14_UnderscoreTokenIsMachineId ==
    AggDone =>
        \A k \in 1..Len(rows) :
            rows[k].source = PathUnderscore => rows[k].machine_id = <<"5", "6", "7", "8">>

\* C16: a row is flagged CPU_PEAKS exactly when its cpu_peak_count is positive
\* and MEM_PEAKS exactly when its mem_peak_count is positive; the rendered
\* flags are "", "CPU_PEAKS", "MEM_PEAKS" or "CPU_PEAKS,MEM_PEAKS".
C16_FlagsFollowPeakCounts ==
    \A k \in 1..Len(rows) :
        /\ ("CPU_PEAKS" \in Range(rows[k].flags)) <=> (rows[k].cpu_peak_count > 0)
        /\ ("MEM_PEAKS" \in Range(rows[k].flags)) <=> (rows[k].mem_peak_count > 0)
        /\ rows[k].flags \in { <<>>, <<"CPU_PEAKS">>, <<"MEM_PEAKS">>,
                               <<"CPU_PEAKS", ",", "MEM_PEAKS">> }

\* a table with a row that has peaks of both kinds and a row that has none
C16_Witness ==
    /\ pc = "exited"
    /\ Len(rows) = 2
    /\ rows[1].flags = <<"CPU_PEAKS", ",", "MEM_PEAKS">>
    /\ rows[2].flags = <<>>
    /\ rows[2].cpu_peak_count = 0
    /\ rows[2].mem_peak_count = 0
    /\ TableRows[1][9] = <<"CPU_PEAKS", ",", "MEM_PEAKS">>

RECURSIVE RowsFor(_)
\* the rows gathered from a list of paths
RowsFor(paths) ==
    IF paths = <<>> THEN <<>>
    ELSE RowsFor(SubSeq(paths, 1, Len(paths) - 1))
         \o LoadOne(paths[Len(paths)], disk[paths[Len(paths)]],
                    PeakRatio(args[1].cpu_peak_percentage),
                    PeakRatio(args[1].ram_peak_percentage), args[1].machine_id).row

\* the orders in which the same paths can be given
Reorderings(paths) ==
    { [k \in 1..Len(paths) |-> paths[f[k]]] :
        f \in { g \in [1..Len(paths) -> 1..Len(paths)] :
                  \A j, k \in 1..Len(paths) : g[j] = g[k] => j = k } }

\* C17: the rows of the table are in ascending order of (machine_id,
\* start_time, source path), and the printed table is the same for every order
\* of the same input paths.
C17_SortedAndOrderIndependent ==
    AggDone =>
        /\ \A k \in 1..(Len(rows) - 1) : ~ KeyLess(rows[k + 1], rows[k])
        /\ \A q \in Reorderings(filepaths) : Report(RowsFor(q)) = stdout

\* two logs with the same machine id and start time and different figures,
\* given in descending order of their paths
C17_Witness ==
    /\ pc = "exited"
    /\ args[1].aggregate_summaries = << <<PathUnderscore, PathDir>> >>
    /\ Len(rows) = 2
    /\ rows[1].source = PathDir
    /\ rows[1].machine_id = rows[2].machine_id
    /\ rows[1].start_time = rows[2].start_time
    /\ RowLine(rows[1]) # RowLine(rows[2])


(* ================== properties of the option handling ================== *)
\* the value a threshold takes from the command line, the config entry and
\* the built-in default, in that order
Effective(cli, entry, default) ==
    IF cli # <<>> THEN cli[1]
    ELSE IF entry # <<>> /\ entry[1] = "plain" THEN entry[2]
    ELSE IF entry # <<>> /\ entry[1] = "mapping" /\ entry[2] # <<>> THEN entry[2][1]
    ELSE default

ConfigEntry(key) == IF config = NoConfig THEN <<>> ELSE config[1]["analysis"][key]
EffectiveCpu == Effective(argv[1].cpu_peak_percentage, ConfigEntry("cpu_peak_percentage"), 90)
EffectiveRam == Effective(argv[1].ram_peak_percentage, ConfigEntry("ram_peak_percentage"), 50)

OutOfRange(opt) == opt # <<>> /\ (opt[1] < 0 \/ opt[1] > 100)

\* C20: a --cpu-peak-percentage or --ram-peak-percentage below 0 or above 100
\* is rejected: the run ends with a non-zero exit status and an error on
\* stderr, and no analysis is made with the value.
C20_OutOfRangeRejected ==
    (pc = "exited" /\ (OutOfRange(argv[1].cpu_peak_percentage)
                        \/ OutOfRange(argv[1].ram_peak_percentage))) =>
        /\ exit_status # <<0>>
        /\ stderr # <<>>
        /\ analyzer = <<>>
        /\ stdout = <<>>

(* =================== properties of the memory trend ==================== *)
\* the single-run summary is on stdout
SummaryShown == \E i \in 1..Len(stdout) : stdout[i][1] = "=== Summary Report ==="

\* the memory trend lines of the summary
IsTrendLine(line) == line[1] = "Memory Trend:"
TrendLines == SelectSeq(stdout, IsTrendLine)

\* fewer than two distinct elapsed times in the series
Degenerate(a) == \A i, j \in 1..Len(a.timestamps) : a.timestamps[i] = a.timestamps[j]

\* C22: the memory trend of a series of length 1, or of one whose elapsed
\* times are all the same, is slope 0 and R^2 0, and that of a series of
\* constant memory has R^2 0; computing it never raises.
C22_DegenerateTrend ==
    (SummaryShown /\ pc = "exited") =>
        /\ exit_status = <<0>>
        /\ Len(TrendLines) = 1
        /\ Degenerate(analyzer[1]) =>
              TrendLines[1][2] = FromInt(0) /\ TrendLines[1][3] = FromInt(0)
        /\ (\A i \in 1..Len(analyzer[1].memory_data) :
               analyzer[1].memory_data[i] = analyzer[1].memory_data[1]) =>
              TrendLines[1][3] = FromInt(0)

\* C23: for a series that lies on a line memory = a + b * elapsed with two
\* distinct elapsed times and b # 0, the trend is b * 3600 MB/hour with
\* R^2 = 1.
C23_LinearTrend ==
    (SummaryShown /\ pc = "exited") =>
        LET a == analyzer[1]
            n == Len(a.timestamps)
        IN  \A i, j \in 1..n :
              ( /\ a.timestamps[i] # a.timestamps[j]
                /\ a.memory_data[i] # a.memory_data[j]
                /\ \A k \in 1..n :
                      (a.memory_data[k] - a.memory_data[i]) * (a.timestamps[j] - a.timestamps[i])
                        = (a.memory_data[j] - a.memory_data[i]) * (a.timestamps[k] - a.timestamps[i]) )
              => /\ Len(TrendLines) = 1
                 /\ REq(TrendLines[1][2],
                        IF a.timestamps[j] > a.timestamps[i]
                        THEN Rat((a.memory_data[j] - a.memory_data[i]) * SECONDS_PER_HOUR,
                                 a.timestamps[j] - a.timestamps[i])
                        ELSE Rat((a.memory_data[i] - a.memory_data[j]) * SECONDS_PER_HOUR,
                                 a.timestamps[i] - a.timestamps[j]))
                 /\ REq(TrendLines[1][3], FromInt(1))

\* C24: every report of a loaded log shows its memory trend: the summary has
\* a "Memory Trend:" line, and every data row of the aggregate table has the
\* mem_slope and mem_r_square values next to its eight other columns.
C24_TrendIsReported ==
    /\ SummaryShown /\ pc = "exited" => Len(TrendLines) = 1
    /\ \A i \in 1..Len(stdout) :
          stdout[i][1] = "=== Aggregated Summary Report ===" =>
              /\ stdout[i + 1] = <<"| machine_id | start_time | duration(days and hours) | cpu_avg_% | cpu_peak_count | mem_avg | mem_peak_count | mem_slope | mem_r_square | flags |">>
              /\ \A k \in 1..Len(TableRows) : Len(TableRows[k]) = 11

\* the largest cpu_percent of the loaded log
MaxCpu == max(analyzer[1].cpu_data)
NoCpuPeaksReported == \E i \in 1..Len(stdout) : stdout[i][1] = "No cpu peaks detected."

C27_RowsAreIndependent ==
    \A k \in 1..Len(rows) :
        LET alone == LoadOne(rows[k].source, disk[rows[k].source],
                             PeakRatio(args[1].cpu_peak_percentage),
                             PeakRatio(args[1].ram_peak_percentage), args[1].machine_id)
        IN  alone.ok /\ rows[k] = alone.row[1]

\* the table for two different logs, given one after the other under
\* different paths
C27_Witness ==
    /\ pc = "exited"
    /\ Len(filepaths) = 2
    /\ disk[filepaths[1]] = LogLate
    /\ disk[filepaths[2]] = LogEarly
    /\ filepaths[1] # filepaths[2]
    /\ Len(rows) = 2

(* ====================== properties of the collector ==================== *)
\* C21: the collector's sample_rate is strictly positive in every state: an
\* effective sample rate <= 0 makes main exit with a non-zero status and an
\* error about --sample-rate before a collector exists, and what
\* on_sample_rate_change leaves behind is positive too.
C21_SampleRatePositive ==
    /\ collector # <<>> => float_gt_0(collector[1].sample_rate)
    /\ (args # <<>> /\ float_le_0(args[1].sample_rate)) =>
          /\ pc = "exited"
          /\ exit_status # <<0>>
          /\ collector = <<>>
          /\ \E i \in 1..Len(stderr) :
                stderr[i][1] = "Error: --sample-rate must be a positive number"

\* the lines printed for failed samples
IsFailureLine(line) == line[1] = "Error: Process not accessible (failures:"
FailureLines == SelectSeq(stdout, IsFailureLine)
StoppedOnFailures ==
    \E i \in 1..Len(stdout) :
        stdout[i][1] = "Error: Process terminated or inaccessible. Stopping monitoring."

\* the data rows of the collector's log
LogRows == Tail(env.log[1])

\* C26: once the monitored process is gone for good while the loop runs, the
\* loop ends by itself and the program exits with status 0, and the log still
\* starts with the header row.
C26_StopsWhenProcessExits ==
    (pc \in LoopPcs /\ env.target = "gone")
        ~> (pc = "exited" /\ exit_status = <<0>>
            /\ (env.log # <<>> => env.log[1][1] = CsvHeader))

\* a run that ended on ten failed samples after its process had gone
C26_Witness ==
    /\ pc = "exited"
    /\ exit_status = <<0>>
    /\ env.target = "gone"
    /\ collector[1].consecutive_failures = 10
    /\ StoppedOnFailures
    /\ env.log # <<>>
    /\ Len(env.log[1]) = 2
    /\ env.log[1][1] = CsvHeader

C29_ConsecutiveFailures ==
    collector # <<>> =>
        LET c == collector[1]
            since == IF c.timestamps = <<>> THEN 0 ELSE c.timestamps[Len(c.timestamps)] + 1
        IN  /\ pc = "loop" => c.consecutive_failures = env.clock - since
            /\ c.consecutive_failures <= 10
            /\ StoppedOnFailures <=> c.consecutive_failures = 10
            /\ c.consecutive_failures = 10 => pc \notin LoopPcs

\* nine failed samples, then a successful one, and the loop goes on
C29_Witness ==
    /\ pc = "loop"
    /\ collector[1].monitoring
    /\ Len(FailureLines) = 9
    /\ collector[1].consecutive_failures = 0
    /\ collector[1].timestamps = <<9>>

\* C30: whenever a reader holds the lock, the three buffers have the same
\* length, at most max_samples (1000), entry i of each comes from the same
\* sample, and they hold the most recent samples: a new sample pushes the
\* oldest one out of all three once they are full.
C30_BuffersInStep ==
    lock = "gui" =>
        LET c == collector[1]
            n == Len(c.timestamps)
        IN  /\ Len(c.cpu_data) = n
            /\ Len(c.memory_data) = n
            /\ n <= 1000
            /\ \A i \in 1..n :
                  /\ c.cpu_data[i] = cpu_percent(c.timestamps[i])
                  /\ c.memory_data[i] = memory_mb(c.timestamps[i])
                  /\ i < n => c.timestamps[i + 1] = c.timestamps[i] + 1
            /\ n > 0 => c.timestamps[n] = c.total_elapsed_time
            /\ n < 1000 /\ n > 0 => c.timestamps[1] = 0

\* a reader holds the lock after the 1001st sample: the first one is gone
C30_Witness ==
    /\ lock = "gui"
    /\ Len(collector[1].timestamps) = 1000
    /\ collector[1].timestamps[1] = 1
    /\ collector[1].timestamps[1000] = 1000

====
